---- MODULE Spec2Model ----
(***************************************************************************)
(* A model of tlv.py: the Tag-Length-Delimiter-Value codec, its handler    *)
(* registry (Factory) and the two entry points dumps and loads.            *)
(*                                                                         *)
(* Texts are sequences of one-character strings.  Python values are        *)
(* records: type is the exact runtime type, a second field the payload     *)
(* (a number, a BOOLEAN, a text, a sequence of values for list and tuple,  *)
(* a set of values for set, a sequence of <<key, value>> for dict, which   *)
(* keeps insertion order as Python's dict does).  MyInt and MyStr stand    *)
(* for user subclasses of int and str.  float and datetime handlers are    *)
(* registered, but their payload conversions are not modelled: no value of *)
(* these types and no text with their tags is drawn.                       *)
(***************************************************************************)
EXTENDS Integers, Sequences, FiniteSets, TLC

VARIABLES
    tag2handler,    \* Factory._tag_2_handler
    type2handler,   \* Factory._type_2_handler
    pc,             \* position of the single thread of control
    call,           \* the operation in progress or last completed
    arg,            \* the value handed to dumps, the handler handed to register
    out,            \* the text returned by the last dumps
    tail,           \* a second encoded fragment appended to out before decoding
    text,           \* the text handed to loads / decode
    stack,          \* container decodes in progress, innermost last
    result,         \* value returned by the last decode
    consumed,       \* consumed length returned by the last outermost decode
    error,          \* the exception the operation raised ("" when none)
    firstReg        \* history: per tag, the first handler ever passed to register

vars == <<tag2handler, type2handler, pc, call, arg, out, tail, text, stack,
          result, consumed, error, firstReg>>

----------------------------------------------------------------------------
(* Bounds of the model *)

\* values handed to dumps have at most this many nodes (containers and leaves)
MaxNodes == 3
\* arbitrary texts handed to loads are all texts over Alphabet up to this length
MaxTextLen == 5

----------------------------------------------------------------------------
(* Python built-ins used by the codec *)

Digits == <<"0", "1", "2", "3", "4", "5", "6", "7", "8", "9">>

IsDigit(c) == \E i \in 1..Len(Digits) : Digits[i] = c

DigitVal(c) == (CHOOSE i \in 1..Len(Digits) : Digits[i] = c) - 1

RECURSIVE NatToStr(_)
NatToStr(n) ==
    IF n < Len(Digits) THEN <<Digits[n + 1]>>
    ELSE NatToStr(n \div Len(Digits)) \o <<Digits[(n % Len(Digits)) + 1]>>

\* str(n) and the f-string rendering of an int
IntToStr(n) == IF n < 0 THEN <<"-">> \o NatToStr(-n) ELSE NatToStr(n)

RECURSIVE StripLeft(_)
StripLeft(s) == IF s # <<>> /\ Head(s) = " " THEN StripLeft(Tail(s)) ELSE s

RECURSIVE StripRight(_)
StripRight(s) ==
    IF s # <<>> /\ s[Len(s)] = " " THEN StripRight(SubSeq(s, 1, Len(s) - 1)) ELSE s

RECURSIVE DigitsValue(_)
\* value of a digit string in which single underscores may separate digits
DigitsValue(s) ==
    IF s = <<>> THEN 0
    ELSE IF s[Len(s)] = "_" THEN DigitsValue(SubSeq(s, 1, Len(s) - 1))
    ELSE DigitsValue(SubSeq(s, 1, Len(s) - 1)) * Len(Digits) + DigitVal(s[Len(s)])

\* the literal int() accepts after stripping and the sign
IsIntBody(s) ==
    /\ s # <<>>
    /\ IsDigit(s[1])
    /\ IsDigit(s[Len(s)])
    /\ \A i \in 1..Len(s) : IsDigit(s[i]) \/ s[i] = "_"
    /\ \A i \in 1..(Len(s) - 1) : ~(s[i] = "_" /\ s[i + 1] = "_")

\* int(s) for a text s: [ok |-> FALSE] stands for ValueError
PyInt(s) ==
    LET t == StripRight(StripLeft(s))
        signed == t # <<>> /\ Head(t) \in {"-", "+"}
        body == IF signed THEN Tail(t) ELSE t
    IN  IF IsIntBody(body)
        THEN [ok |-> TRUE,
              val |-> IF signed /\ Head(t) = "-" THEN 0 - DigitsValue(body)
                      ELSE DigitsValue(body)]
        ELSE [ok |-> FALSE, val |-> 0]

Min(a, b) == IF a < b THEN a ELSE b
Max(a, b) == IF a > b THEN a ELSE b

\* s[start:stop] with Python's treatment of negative and out-of-range indices
PySlice(s, start, stop) ==
    LET n == Len(s)
        lo == Max(0, Min(n, IF start < 0 THEN start + n ELSE start))
        hi == Max(0, Min(n, IF stop < 0 THEN stop + n ELSE stop))
    IN  IF lo < hi THEN SubSeq(s, lo + 1, hi) ELSE <<>>

\* s[start:]
PySliceFrom(s, start) == PySlice(s, start, Len(s))

\* variant: the text before the last separator, as rsplit would give
SplitLast(s, sep) ==
    IF \E i \in 1..Len(s) : s[i] = sep
    THEN SubSeq(s, 1, (CHOOSE i \in 1..Len(s) :
                          s[i] = sep /\ \A j \in (i + 1)..Len(s) : s[j] # sep) - 1)
    ELSE s

\* s.split(sep, maxsplit=1)[0]
SplitFirst(s, sep) ==
    IF \E i \in 1..Len(s) : s[i] = sep
    THEN SubSeq(s, 1, (CHOOSE i \in 1..Len(s) :
                          s[i] = sep /\ \A j \in 1..(i - 1) : s[j] # sep) - 1)
    ELSE s

Range(s) == {s[i] : i \in 1..Len(s)}

----------------------------------------------------------------------------
(* Python values *)

VNone == [type |-> "NoneType"]
VBool(b) == [type |-> "bool", flag |-> b]
VInt(n) == [type |-> "int", num |-> n]
VStr(s) == [type |-> "str", text |-> s]
VMyInt(n) == [type |-> "MyInt", num |-> n]
VMyStr(s) == [type |-> "MyStr", text |-> s]
VList(items) == [type |-> "list", items |-> items]
VTuple(items) == [type |-> "tuple", items |-> items]
VSet(elems) == [type |-> "set", elems |-> elems]
VDict(pairs) == [type |-> "dict", pairs |-> pairs]

NumberTypes == {"bool", "int", "MyInt"}
TextTypes == {"str", "MyStr"}

\* the number a bool, int or int subclass compares and hashes as
NumVal(v) == IF v.type = "bool" THEN (IF v.flag THEN 1 ELSE 0) ELSE v.num

RECURSIVE Hashable(_)
Hashable(v) ==
    CASE v.type \in {"list", "set", "dict"} -> FALSE
      [] v.type = "tuple" -> \A i \in 1..Len(v.items) : Hashable(v.items[i])
      [] OTHER -> TRUE

RECURSIVE PyEq(_, _)
\* a == b for hashable values (the comparison set() and dict() deduplicate by)
PyEq(a, b) ==
    CASE a.type \in NumberTypes /\ b.type \in NumberTypes -> NumVal(a) = NumVal(b)
      [] a.type \in TextTypes /\ b.type \in TextTypes -> a.text = b.text
      [] a.type = "tuple" /\ b.type = "tuple" ->
            /\ Len(a.items) = Len(b.items)
            /\ \A i \in 1..Len(a.items) : PyEq(a.items[i], b.items[i])
      [] OTHER -> a = b

----------------------------------------------------------------------------
(* Handlers and the registry *)

Delimiter == ":"

NoneHandler ==
    [name |-> "NoneHandler", tag |-> "N", factory |-> "NoneType", base |-> "NoneHandler"]
BooleanHandler ==
    [name |-> "BooleanHandler", tag |-> "B", factory |-> "bool", base |-> "BooleanHandler"]
StringHandler ==
    [name |-> "StringHandler", tag |-> "S", factory |-> "str", base |-> "StringHandler"]
DatetimeHandler ==
    [name |-> "DatetimeHandler", tag |-> "D", factory |-> "datetime",
     base |-> "DatetimeHandler"]
IntegerHandler ==
    [name |-> "IntegerHandler", tag |-> "I", factory |-> "int",
     base |-> "GenericNumberHandler"]
FloatHandler ==
    [name |-> "FloatHandler", tag |-> "F", factory |-> "float",
     base |-> "GenericNumberHandler"]
ListHandler ==
    [name |-> "ListHandler", tag |-> "L", factory |-> "list",
     base |-> "GenericCollectionHandler"]
TupleHandler ==
    [name |-> "TupleHandler", tag |-> "T", factory |-> "tuple",
     base |-> "GenericCollectionHandler"]
SetHandler ==
    [name |-> "SetHandler", tag |-> "s", factory |-> "set",
     base |-> "GenericCollectionHandler"]
DictionaryHandler ==
    [name |-> "DictionaryHandler", tag |-> "d", factory |-> "dict",
     base |-> "DictionaryHandler"]

\* DictionaryHandler.pair_handler
PairHandler == TupleHandler

\* the order in which the module's decorators register the handlers at import
ImportOrder ==
    <<NoneHandler, BooleanHandler, StringHandler, DatetimeHandler, IntegerHandler,
      FloatHandler, ListHandler, TupleHandler, SetHandler, DictionaryHandler>>

\* handler classes a caller may pass to Factory.register after import:
\* a numeric handler for the int subclass under a fresh tag, and one that
\* claims the tag of IntegerHandler
MyIntHandler ==
    [name |-> "MyIntHandler", tag |-> "X", factory |-> "MyInt",
     base |-> "GenericNumberHandler"]
ShadowHandler ==
    [name |-> "ShadowHandler", tag |-> "I", factory |-> "MyInt",
     base |-> "GenericNumberHandler"]
UserHandlers == {MyIntHandler, ShadowHandler}

ContainerBases == {"GenericCollectionHandler", "DictionaryHandler"}

\* variant: register without the check for a tag already present
RegisterOverwrite(m, handler) ==
    [ok |-> TRUE,
     tag |-> (handler.tag :> handler) @@ m.tag,
     type |-> (handler.factory :> handler) @@ m.type]

\* Factory.register on the pair of maps m = [tag, type]; ok = FALSE is KeyError
RegisterMaps(m, handler) ==
    IF handler.tag \in DOMAIN m.tag
    THEN [ok |-> FALSE, tag |-> m.tag, type |-> m.type]
    ELSE [ok |-> TRUE,
          tag |-> (handler.tag :> handler) @@ m.tag,
          type |-> (handler.factory :> handler) @@ m.type]

RECURSIVE RegisterAll(_, _)
RegisterAll(m, handlers) ==
    IF handlers = <<>> THEN m
    ELSE RegisterAll(RegisterMaps(m, Head(handlers)), Tail(handlers))

EmptyMap == [x \in {} |-> x]

\* the maps once the module is imported
ImportedMaps == RegisterAll([ok |-> TRUE, tag |-> EmptyMap, type |-> EmptyMap], ImportOrder)

\* the history of first registrations after a call register(handler)
NoteFirst(f, handler) ==
    IF handler.tag \in DOMAIN f THEN f ELSE (handler.tag :> handler) @@ f

RECURSIVE NoteAll(_, _)
NoteAll(f, handlers) ==
    IF handlers = <<>> THEN f ELSE NoteAll(NoteFirst(f, Head(handlers)), Tail(handlers))

\* Handler.get_tag
GetTag(raw) == raw[1]

\* Factory.get_by_raw_data: IndexError on the empty text, KeyError on an unknown tag
GetByRawData(raw) ==
    IF raw = <<>> THEN [ok |-> FALSE, error |-> "IndexError", handler |-> NoneHandler]
    ELSE IF GetTag(raw) \notin DOMAIN tag2handler
    THEN [ok |-> FALSE, error |-> "KeyError", handler |-> NoneHandler]
    ELSE [ok |-> TRUE, error |-> "", handler |-> tag2handler[GetTag(raw)]]

\* variant: lookup that falls back on the base class, as isinstance would
GetByDataSubclass(data) ==
    LET base == CASE data.type \in {"bool", "MyInt"} -> "int"
                  [] data.type = "MyStr" -> "str"
                  [] OTHER -> data.type
    IN  IF data.type \in DOMAIN type2handler
        THEN [ok |-> TRUE, handler |-> type2handler[data.type]]
        ELSE IF base \in DOMAIN type2handler
        THEN [ok |-> TRUE, handler |-> type2handler[base]]
        ELSE [ok |-> FALSE, handler |-> NoneHandler]

\* Factory.get_by_data: lookup by type(data), KeyError when absent
GetByData(data) ==
    IF data.type \in DOMAIN type2handler
    THEN [ok |-> TRUE, handler |-> type2handler[data.type]]
    ELSE [ok |-> FALSE, handler |-> NoneHandler]

----------------------------------------------------------------------------
(* Encoding *)

\* variant: a length that counts the delimiter too
PackCountingDelimiter(handler, length, value) ==
    <<handler.tag>> \o IntToStr(length + 1) \o <<Delimiter>> \o value

\* Handler._pack
Pack(handler, length, value) ==
    <<handler.tag>> \o IntToStr(length) \o <<Delimiter>> \o value

EncodeError == [ok |-> FALSE, text |-> <<>>, length |-> 0]
Encoded(handler, value) ==
    [ok |-> TRUE, text |-> Pack(handler, Len(value), value), length |-> Len(value)]

\* the orders in which iterating a set may yield its elements
Orders(S) ==
    {f \in [1..Cardinality(S) -> S] : \A i, j \in 1..Cardinality(S) : f[i] = f[j] => i = j}

\* the sequences `for i in data` may yield
Iterations(data) ==
    CASE data.type = "set" -> Orders(data.elems)
      [] data.type \in {"list", "tuple"} -> {data.items}
      [] OTHER -> {}

\* str(data) for the values a numeric handler is handed
NumberText(data) ==
    IF data.type = "bool" THEN (IF data.flag THEN <<"T", "r", "u", "e">>
                                ELSE <<"F", "a", "l", "s", "e">>)
    ELSE IntToStr(data.num)

\* the result of a join: the text and its length
Joined(value) == [ok |-> TRUE, text |-> value, length |-> Len(value)]

RECURSIVE ConcatTexts(_)
\* "".join of the texts of a sequence of encode results
ConcatTexts(f) == IF f = <<>> THEN <<>> ELSE Head(f).text \o ConcatTexts(Tail(f))

RECURSIVE Encode(_), HandlerEncode(_, _), JoinEncoded(_)

\* "".join(Factory.get_by_data(i).encode(i)[0] for i in items): the results
\* it may produce (text and its length), {EncodeError} when a lookup raises
JoinEncoded(items) ==
    IF items = <<>> THEN {Joined(<<>>)}
    ELSE LET first == Encode(Head(items))
             rest == JoinEncoded(Tail(items))
         IN  IF EncodeError \in first \/ EncodeError \in rest THEN {EncodeError}
             ELSE {Joined(a.text \o b.text) : a \in first, b \in rest}

\* handler.encode(data): the set of results it may return (a set is iterated
\* in an order the language does not fix)
HandlerEncode(handler, data) ==
    CASE handler.base = "NoneHandler" -> {Encoded(handler, <<>>)}
      [] handler.base = "BooleanHandler" ->
            {Encoded(handler, IntToStr(NumVal(data)))}
      [] handler.base = "StringHandler" -> {Encoded(handler, data.text)}
      [] handler.base = "GenericNumberHandler" -> {Encoded(handler, NumberText(data))}
      [] handler.base = "GenericCollectionHandler" ->
            LET joined == UNION {JoinEncoded(it) : it \in Iterations(data)}
            IN  IF EncodeError \in joined THEN {EncodeError}
                ELSE {Encoded(handler, j.text) : j \in joined}
      [] handler.base = "DictionaryHandler" ->
            LET pairs == [i \in 1..Len(data.pairs) |->
                            HandlerEncode(PairHandler, VTuple(data.pairs[i]))]
                bad == \E i \in 1..Len(pairs) : EncodeError \in pairs[i]
                picks == {f \in [1..Len(pairs) -> UNION Range(pairs)] :
                            \A i \in 1..Len(pairs) : f[i] \in pairs[i]}
            IN  IF bad THEN {EncodeError}
                ELSE {Encoded(handler, ConcatTexts(f)) : f \in picks}

\* Factory.get_by_data(data).encode(data)
Encode(data) ==
    LET h == GetByData(data)
    IN  IF h.ok THEN HandlerEncode(h.handler, data) ELSE {EncodeError}

----------------------------------------------------------------------------
(* The values and texts the operations are applied to *)

\* leaves that may occur inside containers
ElemScalars ==
    {VNone, VBool(FALSE), VInt(0), VInt(-1), VStr(<<":">>), VMyInt(1)}

\* further leaves handed to dumps on their own: a multi-digit number, texts
\* holding the delimiter, digits and tag characters, an unsupported text type
TopScalars ==
    ElemScalars \cup
    {VBool(TRUE), VInt(1), VInt(12), VInt(-30), VStr(<<>>),
     VStr(<<"1", ":", "I">>), VStr(<<"S", "2", ":", "a", "b">>), VMyStr(<<"a">>)}

EmptyContainers == {VList(<<>>), VTuple(<<>>), VSet({}), VDict(<<>>)}

\* no two members of the sequence are equal as Python compares them
Distinct(s) == \A i, j \in 1..Len(s) : i # j => ~PyEq(s[i], s[j])

RECURSIVE ValuesOfSize(_), SeqsOfSize(_), PairSeqsOfSize(_)

\* the sequences of values with n nodes in all
SeqsOfSize(n) ==
    IF n = 0 THEN {<<>>}
    ELSE UNION {{<<x>> \o s : x \in ValuesOfSize(k), s \in SeqsOfSize(n - k)} : k \in 1..n}

\* the sequences of <<key, value>> with n nodes in all
PairSeqsOfSize(n) ==
    IF n = 0 THEN {<<>>}
    ELSE UNION {UNION {{<<<<key, x>>>> \o s :
                          key \in {y \in ValuesOfSize(k) : Hashable(y)},
                          x \in ValuesOfSize(j),
                          s \in PairSeqsOfSize(n - k - j)} :
                       j \in 1..(n - k)} :
                k \in 1..(n - 1)}

\* the values Python can build with exactly n nodes over ElemScalars
ValuesOfSize(n) ==
    IF n = 1 THEN ElemScalars \cup EmptyContainers
    ELSE {VList(s) : s \in SeqsOfSize(n - 1)}
         \cup {VTuple(s) : s \in SeqsOfSize(n - 1)}
         \cup {VSet(Range(s)) :
                 s \in {t \in SeqsOfSize(n - 1) :
                          Distinct(t) /\ \A i \in 1..Len(t) : Hashable(t[i])}}
         \cup {VDict(p) :
                 p \in {q \in PairSeqsOfSize(n - 1) :
                          Distinct([i \in 1..Len(q) |-> q[i][1]])}}

\* the list of the documented example, dumps([1, 2])
Examples == {VList(<<VInt(1), VInt(2)>>)}

\* the values handed to dumps
Values == TopScalars \cup Examples \cup UNION {ValuesOfSize(n) : n \in 1..MaxNodes}

\* the values whose encoding is appended as a second fragment
TailValues == ElemScalars \cup EmptyContainers

\* the characters of the arbitrary texts handed to loads: the tags of a text,
\* a number, a list and a dictionary, a digit, the delimiter and a sign
Alphabet == {"S", "I", "L", "d", "2", ":", "-"}

RECURSIVE TextsOfLen(_)
TextsOfLen(n) ==
    IF n = 0 THEN {<<>>} ELSE {<<c>> \o t : c \in Alphabet, t \in TextsOfLen(n - 1)}

ShortTexts == UNION {TextsOfLen(n) : n \in 0..MaxTextLen}

----------------------------------------------------------------------------
(* Decoding *)

\* variant: the payload is everything after the delimiter, whatever the length
UnpackToEnd(raw) ==
    IF raw = <<>>
    THEN [ok |-> FALSE, error |-> "IndexError", value |-> <<>>, length |-> 0,
          value_offset |-> 0]
    ELSE LET tag == <<GetTag(raw)>>
             length_str == SplitFirst(PySliceFrom(raw, Len(tag)), Delimiter)
             value_offset == Len(length_str) + Len(tag) + Len(<<Delimiter>>)
             length == PyInt(length_str)
         IN  IF length.ok
             THEN [ok |-> TRUE, error |-> "",
                   value |-> PySliceFrom(raw, value_offset),
                   length |-> length.val, value_offset |-> value_offset]
             ELSE [ok |-> FALSE, error |-> "ValueError", value |-> <<>>, length |-> 0,
                   value_offset |-> 0]

\* Handler._unpack: ok = FALSE when get_tag or int() raises
Unpack(raw) ==
    IF raw = <<>>
    THEN [ok |-> FALSE, error |-> "IndexError", value |-> <<>>, length |-> 0,
          value_offset |-> 0]
    ELSE LET tag == <<GetTag(raw)>>
             length_str == SplitFirst(PySliceFrom(raw, Len(tag)), Delimiter)
             value_offset == Len(length_str) + Len(tag) + Len(<<Delimiter>>)
             length == PyInt(length_str)
         IN  IF length.ok
             THEN [ok |-> TRUE, error |-> "",
                   value |-> PySlice(raw, value_offset, value_offset + length.val),
                   length |-> length.val, value_offset |-> value_offset]
             ELSE [ok |-> FALSE, error |-> "ValueError", value |-> <<>>, length |-> 0,
                   value_offset |-> 0]

Decoded(v, n) == [ok |-> TRUE, error |-> "", value |-> v, len |-> n]
DecodeError(e) == [ok |-> FALSE, error |-> e, value |-> VNone, len |-> 0]

\* cls.factory(value) for a payload text: int, str and their subclasses
FromText(factory, value) ==
    CASE factory \in {"int", "MyInt"} ->
            LET n == PyInt(value)
            IN  IF n.ok THEN Decoded([type |-> factory, num |-> n.val], 0)
                ELSE DecodeError("ValueError")
      [] factory \in {"str", "MyStr"} -> Decoded([type |-> factory, text |-> value], 0)

\* set(items): the first of several equal members is the one kept
SetOf(items) ==
    {items[i] : i \in {k \in 1..Len(items) :
                         \A j \in 1..(k - 1) : ~PyEq(items[j], items[k])}}

RECURSIVE DictOf(_, _)
\* dict(pairs) continued from the entries d: an equal key keeps its place and
\* its first key object and takes the later value
DictOf(d, pairs) ==
    IF pairs = <<>> THEN d
    ELSE LET key == Head(pairs).items[1]
             val == Head(pairs).items[2]
             hit == {i \in 1..Len(d) : PyEq(d[i][1], key)}
         IN  IF hit = {} THEN DictOf(Append(d, <<key, val>>), Tail(pairs))
             ELSE DictOf([d EXCEPT ![CHOOSE i \in hit : TRUE] = <<@[1], val>>],
                         Tail(pairs))

\* cls.factory(items) for the decoded children of a container
FromItems(factory, items) ==
    CASE factory = "list" -> Decoded(VList(items), 0)
      [] factory = "tuple" -> Decoded(VTuple(items), 0)
      [] factory = "set" ->
            IF \A i \in 1..Len(items) : Hashable(items[i])
            THEN Decoded(VSet(SetOf(items)), 0)
            ELSE DecodeError("TypeError")
      [] factory = "dict" ->
            IF \E i \in 1..Len(items) : Len(items[i].items) # 2
            THEN DecodeError("ValueError")
            ELSE IF \E i \in 1..Len(items) : ~Hashable(items[i].items[1])
            THEN DecodeError("TypeError")
            ELSE Decoded(VDict(DictOf(<<>>, items)), 0)

\* variant: the consumed length leaves out the header
ScalarDecodePayloadOnly(handler, raw) ==
    LET u == Unpack(raw)
        n == Len(u.value)
    IN  IF ~u.ok THEN DecodeError(u.error)
        ELSE CASE handler.base = "NoneHandler" -> Decoded(VNone, n)
               [] handler.base = "BooleanHandler" ->
                     LET i == PyInt(u.value)
                     IN  IF i.ok THEN Decoded(VBool(i.val # 0), n)
                         ELSE DecodeError("ValueError")
               [] handler.base \in {"StringHandler", "GenericNumberHandler"} ->
                     LET v == FromText(handler.factory, u.value)
                     IN  IF v.ok THEN Decoded(v.value, n) ELSE v

\* decode of the handlers without children: NoneHandler, BooleanHandler,
\* StringHandler and GenericNumberHandler
ScalarDecode(handler, raw) ==
    LET u == Unpack(raw)
        n == Len(u.value) + u.value_offset
    IN  IF ~u.ok THEN DecodeError(u.error)
        ELSE CASE handler.base = "NoneHandler" -> Decoded(VNone, n)
               [] handler.base = "BooleanHandler" ->
                     LET i == PyInt(u.value)
                     IN  IF i.ok THEN Decoded(VBool(i.val # 0), n)
                         ELSE DecodeError("ValueError")
               [] handler.base \in {"StringHandler", "GenericNumberHandler"} ->
                     LET v == FromText(handler.factory, u.value)
                     IN  IF v.ok THEN Decoded(v.value, n) ELSE v

\* the local variables of a container decode in progress
Frame(handler, raw, u) ==
    [handler |-> handler, raw |-> raw, value |-> u.value,
     value_offset |-> u.value_offset, offset |-> 0, items |-> <<>>]

Top == stack[Len(stack)]

\* value[offset:] of the innermost decode
ItemData == PySliceFrom(Top.value, Top.offset)

\* the handler of the next child: the pair handler inside a dictionary, the
\* handler registered under the child's tag inside a list, tuple or set
ItemHandler ==
    IF Top.handler.base = "DictionaryHandler"
    THEN [ok |-> TRUE, error |-> "", handler |-> PairHandler]
    ELSE GetByRawData(ItemData)

----------------------------------------------------------------------------
(* Operations *)

RegistryUnchanged == UNCHANGED <<tag2handler, type2handler, firstReg>>

Raise(e) ==
    /\ pc' = "raised"
    /\ error' = e
    /\ stack' = <<>>
    /\ result' = VNone
    /\ consumed' = 0

Return(v, n) ==
    /\ pc' = "done"
    /\ error' = ""
    /\ stack' = <<>>
    /\ result' = v
    /\ consumed' = n

\* handler.decode(raw) as called from outside, up to the first loop test of a
\* container handler
BeginDecode(handler, raw) ==
    IF handler.base \in ContainerBases
    THEN LET u == Unpack(raw)
         IN  IF u.ok
             THEN /\ pc' = "decoding"
                  /\ error' = ""
                  /\ stack' = <<Frame(handler, raw, u)>>
                  /\ result' = VNone
                  /\ consumed' = 0
             ELSE Raise(u.error)
    ELSE LET r == ScalarDecode(handler, raw)
         IN  IF r.ok THEN Return(r.value, r.len) ELSE Raise(r.error)

Init ==
    /\ tag2handler = ImportedMaps.tag
    /\ type2handler = ImportedMaps.type
    /\ firstReg = NoteAll(EmptyMap, ImportOrder)
    /\ pc = "idle"
    /\ call = ""
    /\ arg = VNone
    /\ out = <<>>
    /\ tail = <<>>
    /\ text = <<>>
    /\ stack = <<>>
    /\ result = VNone
    /\ consumed = 0
    /\ error = ""

\* Factory.register(handler)
Register(handler) ==
    /\ pc = "idle"
    /\ call' = "register"
    /\ arg' = handler
    /\ LET r == RegisterMaps([tag |-> tag2handler, type |-> type2handler], handler)
       IN  /\ tag2handler' = r.tag
           /\ type2handler' = r.type
           /\ pc' = IF r.ok THEN "done" ELSE "raised"
           /\ error' = IF r.ok THEN "" ELSE "KeyError"
    /\ firstReg' = NoteFirst(firstReg, handler)
    /\ UNCHANGED <<out, tail, text, stack, result, consumed>>

\* dumps(data)
Dumps(data) ==
    /\ pc = "idle"
    /\ call' = "dumps"
    /\ arg' = data
    /\ \E e \in Encode(data) :
          IF e.ok
          THEN /\ out' = e.text
               /\ pc' = "dumped"
               /\ error' = ""
          ELSE /\ out' = <<>>
               /\ pc' = "raised"
               /\ error' = "KeyError"
    /\ UNCHANGED <<tail, text, stack, result, consumed>>
    /\ RegistryUnchanged

\* loads(data), up to the first loop test of a container handler
Loads(data) ==
    /\ call' = "loads"
    /\ text' = data
    /\ LET h == GetByRawData(data)
       IN  IF h.ok THEN BeginDecode(h.handler, data) ELSE Raise(h.error)
    /\ UNCHANGED <<arg, out, tail>>
    /\ RegistryUnchanged

\* loads of an arbitrary text
LoadsText(data) ==
    /\ pc = "idle"
    /\ Loads(data)

\* loads(dumps(v))
LoadsEncoded ==
    /\ pc = "dumped"
    /\ Loads(out)

\* loads of a container fragment whose only child is dumps(v)
LoadsEmbedded(handler) ==
    /\ pc = "dumped"
    /\ Loads(Pack(handler, Len(out), out))

\* Factory.get_by_data(a).decode(dumps(a) + dumps(b))
DecodeFirst(b) ==
    /\ pc = "dumped"
    /\ call' = "decode"
    /\ \E e \in Encode(b) :
          /\ e.ok
          /\ tail' = e.text
          /\ text' = out \o e.text
          /\ BeginDecode(GetByData(arg).handler, out \o e.text)
    /\ UNCHANGED <<arg, out>>
    /\ RegistryUnchanged

\* one pass of the loop whose child has no children of its own
DecodeLeaf ==
    /\ pc = "decoding"
    /\ Top.offset < Len(Top.value)
    /\ ItemHandler.ok
    /\ ItemHandler.handler.base \notin ContainerBases
    /\ LET r == ScalarDecode(ItemHandler.handler, ItemData)
       IN  /\ r.ok
           /\ stack' = [stack EXCEPT ![Len(stack)] =
                          [@ EXCEPT !.items = Append(@, r.value),
                                    !.offset = @ + r.len]]
    /\ UNCHANGED <<pc, call, arg, out, tail, text, result, consumed, error>>
    /\ RegistryUnchanged

\* one pass of the loop entering the decode of a child container
DecodeEnter ==
    /\ pc = "decoding"
    /\ Top.offset < Len(Top.value)
    /\ ItemHandler.ok
    /\ ItemHandler.handler.base \in ContainerBases
    /\ LET u == Unpack(ItemData)
       IN  /\ u.ok
           /\ stack' = Append(stack, Frame(ItemHandler.handler, ItemData, u))
    /\ UNCHANGED <<pc, call, arg, out, tail, text, result, consumed, error>>
    /\ RegistryUnchanged

\* the exception a pass of the loop raises, if any: the child's tag is not
\* registered, or the child's header or payload does not convert
ItemError ==
    IF ~ItemHandler.ok THEN ItemHandler.error
    ELSE IF ItemHandler.handler.base \in ContainerBases THEN Unpack(ItemData).error
    ELSE ScalarDecode(ItemHandler.handler, ItemData).error

\* one pass of the loop that raises
DecodeRaise ==
    /\ pc = "decoding"
    /\ Top.offset < Len(Top.value)
    /\ ItemError # ""
    /\ Raise(ItemError)
    /\ UNCHANGED <<call, arg, out, tail, text>>
    /\ RegistryUnchanged

\* the loop ends: cls.factory(items) is returned with len(value) + value_offset,
\* to the enclosing loop or to the caller
DecodeReturn ==
    /\ pc = "decoding"
    /\ Top.offset >= Len(Top.value)
    /\ LET r == FromItems(Top.handler.factory, Top.items)
           n == Len(Top.value) + Top.value_offset
           outer == SubSeq(stack, 1, Len(stack) - 1)
       IN  IF ~r.ok THEN Raise(r.error)
           ELSE IF outer = <<>> THEN Return(r.value, n)
           ELSE /\ stack' = [outer EXCEPT ![Len(outer)] =
                               [@ EXCEPT !.items = Append(@, r.value),
                                         !.offset = @ + n]]
                /\ UNCHANGED <<pc, result, consumed, error>>
    /\ UNCHANGED <<call, arg, out, tail, text>>
    /\ RegistryUnchanged

\* the caller is finished with the outcome of the operation
Finish ==
    /\ pc \in {"dumped", "done", "raised"}
    /\ pc' = "idle"
    /\ call' = ""
    /\ arg' = VNone
    /\ out' = <<>>
    /\ tail' = <<>>
    /\ text' = <<>>
    /\ stack' = <<>>
    /\ result' = VNone
    /\ consumed' = 0
    /\ error' = ""
    /\ RegistryUnchanged

(* What the caller does when no operation is in progress *)

CallRegister == pc = "idle" /\ \E handler \in UserHandlers : Register(handler)

CallDumps == pc = "idle" /\ \E data \in Values : Dumps(data)

CallLoads == pc = "idle" /\ \E data \in ShortTexts : LoadsText(data)

CallLoadsEncoded == pc = "dumped" /\ LoadsEncoded

CallLoadsEmbedded ==
    /\ pc = "dumped"
    /\ \E handler \in {ListHandler, TupleHandler, SetHandler, DictionaryHandler} :
          LoadsEmbedded(handler)

CallDecodeFirst == pc = "dumped" /\ \E b \in TailValues : DecodeFirst(b)

Next ==
    \/ CallRegister
    \/ CallDumps
    \/ CallLoads
    \/ CallLoadsEncoded
    \/ CallLoadsEmbedded
    \/ CallDecodeFirst
    \/ DecodeLeaf
    \/ DecodeEnter
    \/ DecodeRaise
    \/ DecodeReturn
    \/ Finish

Spec == Init /\ [][Next]_vars

----------------------------------------------------------------------------
(* Properties *)

\* loads(dumps(arg)) has returned or raised
RoundTripEnded ==
    call = "loads" /\ out # <<>> /\ text = out /\ pc \in {"done", "raised"}

\* C1: for every value dumps accepts, loads(dumps(v)) returns a value equal to
\* v: same container kind, same elements in the same order for lists, tuples
\* and dictionaries, the same members for sets
RoundTrip == RoundTripEnded => pc = "done" /\ result = arg

RoundTripWitness ==
    /\ RoundTripEnded
    /\ arg = VDict(<<<<VInt(-1), VStr(<<":">>)>>>>)
    /\ result = arg

RECURSIVE WirePayloads(_), WireTexts(_), WireJoin(_)

\* the concatenations, without separators, of one fragment per member of items
WireJoin(items) ==
    IF items = <<>> THEN {<<>>}
    ELSE {a \o b : a \in WireTexts(Head(items)), b \in WireJoin(Tail(items))}

\* the VALUE part the format prescribes for v
WirePayloads(v) ==
    CASE v.type = "NoneType" -> {<<>>}
      [] v.type = "bool" -> {IF v.flag THEN <<"1">> ELSE <<"0">>}
      [] v.type \in {"int", "MyInt"} -> {IntToStr(v.num)}
      [] v.type = "str" -> {v.text}
      [] v.type \in {"list", "tuple"} -> WireJoin(v.items)
      [] v.type = "set" -> UNION {WireJoin(o) : o \in Orders(v.elems)}
      [] v.type = "dict" ->
            WireJoin([i \in 1..Len(v.pairs) |-> VTuple(v.pairs[i])])

\* TAG LENGTH ':' VALUE, with the tag registered for the exact type of v
WireTexts(v) ==
    {<<type2handler[v.type].tag>> \o IntToStr(Len(p)) \o <<":">> \o p :
        p \in WirePayloads(v)}

\* C2: the text dumps returns is the tag of the value's exact type, the
\* decimal length of VALUE, ':' and VALUE, where VALUE is the canonical text
\* of a scalar or the concatenation of the children's fragments; None gives
\* N0:, True gives B1:1 and [1, 2] gives L8:I1:1I1:2
WireFormat ==
    pc = "dumped" =>
        /\ out \in WireTexts(arg)
        /\ arg = VNone => out = <<"N", "0", ":">>
        /\ arg = VBool(TRUE) => out = <<"B", "1", ":", "1">>
        /\ arg = VList(<<VInt(1), VInt(2)>>) =>
              out = <<"L", "8", ":", "I", "1", ":", "1", "I", "1", ":", "2">>

WireFormatWitness ==
    /\ pc = "dumped"
    /\ arg = VDict(<<<<VInt(-1), VList(<<>>)>>>>)
    /\ out = <<"d", "1", "1", ":", "T", "8", ":", "I", "2", ":", "-", "1",
               "L", "0", ":">>

\* decoding dumps(a) + dumps(b) with the handler of a has returned or raised
DecodeFirstEnded == call = "decode" /\ pc \in {"done", "raised"}

\* C3: decoding dumps(a) reports len(dumps(a)) as consumed, and decoding
\* dumps(a) + dumps(b) with the handler of a returns a and reports
\* len(dumps(a)), which is less than the length of the concatenation
FramingExact ==
    /\ RoundTripEnded => pc = "done" /\ consumed = Len(out)
    /\ DecodeFirstEnded =>
          /\ pc = "done"
          /\ result = arg
          /\ consumed = Len(out)
          /\ consumed < Len(text)

FramingExactWitness ==
    /\ DecodeFirstEnded
    /\ arg = VList(<<VStr(<<":">>), VSet({})>>)
    /\ tail = <<"I", "2", ":", "-", "1">>
    /\ consumed = Len(out)

\* the text has a header TAG digits ':' whose number is larger than the
\* count of characters after the delimiter
DeclaresOverrun(t) ==
    \E k \in 2..(Len(t) - 1) :
        /\ \A i \in 2..k : IsDigit(t[i])
        /\ t[k + 1] = ":"
        /\ DigitsValue(SubSeq(t, 2, k)) > Len(t) - (k + 1)

\* C4: loads raises for every text whose declared length is larger than
\* the number of characters after the delimiter
OverrunRejected == call = "loads" /\ pc = "done" => ~DeclaresOverrun(text)

\* the characters between the tag and the payload are decimal digits
\* followed by the delimiter
HeaderWellFormed(t) ==
    \E k \in 2..(Len(t) - 1) :
        /\ \A i \in 2..k : IsDigit(t[i])
        /\ t[k + 1] = ":"

\* C5: loads raises for every text whose length field is negative or not a
\* number or whose delimiter is missing
MalformedHeaderRejected == call = "loads" /\ pc = "done" => HeaderWellFormed(text)

RECURSIVE Unsupported(_)
\* the value, or a value nested in it at any depth, has a type without a
\* registered handler
Unsupported(v) ==
    \/ v.type \notin DOMAIN type2handler
    \/ v.type \in {"list", "tuple"} /\ \E i \in 1..Len(v.items) : Unsupported(v.items[i])
    \/ v.type = "set" /\ \E x \in v.elems : Unsupported(x)
    \/ v.type = "dict" /\ \E i \in 1..Len(v.pairs) :
          Unsupported(v.pairs[i][1]) \/ Unsupported(v.pairs[i][2])

\* C6: dumps resolves the handler by the exact type: it raises and returns
\* no text when the value or any nested element has a type without a
\* registered handler, subclasses of registered types included, and a
\* boolean is encoded under the boolean tag, not the integer tag
ExactTypeResolution ==
    call = "dumps" =>
        /\ Unsupported(arg) => pc = "raised" /\ out = <<>>
        /\ pc = "dumped" /\ arg.type = "bool" => out[1] = BooleanHandler.tag

ExactTypeResolutionWitness ==
    /\ call = "dumps"
    /\ pc = "raised"
    /\ arg = VList(<<VTuple(<<VMyInt(1)>>)>>)
    /\ "MyInt" \notin DOMAIN type2handler
    /\ "int" \in DOMAIN type2handler

\* C7: each tag maps to the first handler registered under it; register with
\* a tag already present raises and changes neither map; dumps, loads and
\* decode change neither map
RegistryIntegrity ==
    /\ [](tag2handler = firstReg)
    /\ [][/\ pc = "idle" /\ call' = "register" /\ arg'.tag \in DOMAIN tag2handler
             => pc' = "raised" /\ UNCHANGED <<tag2handler, type2handler>>
          /\ call' \in {"dumps", "loads", "decode"}
             => UNCHANGED <<tag2handler, type2handler>>]_vars

RegistryIntegrityWitness ==
    /\ call = "register"
    /\ pc = "raised"
    /\ arg = ShadowHandler
    /\ tag2handler["I"] = IntegerHandler
    /\ tag2handler["X"] = MyIntHandler
    /\ type2handler["MyInt"] = MyIntHandler

\* C8: when the loop of a container decode stops, the offset summed from the
\* children's consumed lengths equals the payload length
LandsOnBoundary ==
    pc = "decoding" =>
        \A i \in 1..Len(stack) : stack[i].offset <= Len(stack[i].value)

\* C9: loads of a dictionary returns only when the children of its payload
\* carry the tag of the pair handler
DictAcceptsOnlyPairs ==
    /\ call = "loads"
    /\ pc = "done"
    /\ result.type = "dict"
    /\ Unpack(text).value # <<>>
    => GetTag(Unpack(text).value) = PairHandler.tag

\* the characters a frame of the stack still has to consume: for the innermost
\* frame the rest of its payload, for an outer frame the rest after the child
\* being decoded; counted with two for the frame itself
FrameMeasure(i) ==
    2 + Len(stack[i].value) - stack[i].offset
      - (IF i < Len(stack)
         THEN stack[i + 1].value_offset + Len(stack[i + 1].value)
         ELSE 0)

RECURSIVE SumMeasure(_)
SumMeasure(i) == IF i = 0 THEN 0 ELSE FrameMeasure(i) + SumMeasure(i - 1)

\* a variant of the decode loops
Measure == SumMeasure(Len(stack))

\* C10: a started decode ends, returning or raising, after finitely many
\* steps: each pass of a loop moves the offset forward, each nested decode is
\* handed a text shorter than the enclosing fragment, and every step that
\* does not end the decode lowers a variant that never goes below zero
DecodeTerminates ==
    [][pc = "decoding" /\ pc' = "decoding" =>
          /\ Len(stack') <= Len(stack) =>
                stack'[Len(stack')].offset > stack[Len(stack')].offset
          /\ Len(stack') > Len(stack) =>
                Len(stack'[Len(stack')].raw) < Len(Top.raw)
          /\ Measure' < Measure
          /\ Measure' >= 0]_vars

DecodeTerminatesWitness ==
    /\ pc = "decoding"
    /\ Len(stack) = 3
    /\ Top.offset > 0

====
